---- MODULE Spec2Model ----
(***************************************************************************)
(* libadiotp: the client library for the ADI OTP pseudo trusted            *)
(* application.  The model follows src/src/libadiotp.c: one action per     *)
(* exported function, the TEE client API and the secure peer behind it     *)
(* as the environment.                                                     *)
(***************************************************************************)
EXTENDS Integers, Sequences, FiniteSets, TLC

(* ---------------------------------------------------------------------- *)
(* Bounds of the model.                                                    *)
(* ---------------------------------------------------------------------- *)
\* number of struct adi_otp allocations a run may make
MaxHandles == 2

(* ---------------------------------------------------------------------- *)
(* 32-bit words.  A uint32_t is kept as its two 16-bit halves so that the  *)
(* full width is there: (hi, lo) stands for hi * 2^16 + lo.                *)
(* ---------------------------------------------------------------------- *)
Word(hi, lo) == [hi |-> hi, lo |-> lo]

\* a small value as a uint32_t
W(n) == Word(0, n)

\* conversion of a uint32_t to int (two's complement, as the build does it)
ToInt(u) ==
    IF u.hi >= 32768
    THEN (u.hi - 65536) * 65536 + u.lo
    ELSE u.hi * 65536 + u.lo

\* conversion of an int to uint32_t (modulo 2^32)
ToU32(i) == Word((i \div 65536) % 65536, i % 65536)

(* ---------------------------------------------------------------------- *)
(* Constants of the headers.                                               *)
(* ---------------------------------------------------------------------- *)
NULL == 0
EINVAL == 22

TEEC_SUCCESS == Word(0, 0)
TEEC_ERROR_ACCESS_DENIED == Word(65535, 1)
TEEC_ERROR_BAD_PARAMETERS == Word(65535, 6)
TEEC_ERROR_ITEM_NOT_FOUND == Word(65535, 8)
TEEC_ERROR_COMMUNICATION == Word(65535, 14)
TEEC_ERROR_SHORT_BUFFER == Word(65535, 16)

TEEC_NONE == "TEEC_NONE"
TEEC_VALUE_INPUT == "TEEC_VALUE_INPUT"
TEEC_VALUE_OUTPUT == "TEEC_VALUE_OUTPUT"
TEEC_MEMREF_TEMP_INPUT == "TEEC_MEMREF_TEMP_INPUT"
TEEC_MEMREF_TEMP_OUTPUT == "TEEC_MEMREF_TEMP_OUTPUT"

TEEC_PARAM_TYPES(p0, p1, p2, p3) == <<p0, p1, p2, p3>>

\* libadiotp.h: the version the library was built for
ADI_OTP_MAJOR == 1
ADI_OTP_MINOR == 2

\* libadiotp.h: the command identifiers, by name
ADI_OTP_CMD_VERSION == "ADI_OTP_CMD_VERSION"
ADI_OTP_CMD_READ == "ADI_OTP_CMD_READ"
ADI_OTP_CMD_WRITE == "ADI_OTP_CMD_WRITE"
ADI_OTP_CMD_INVALIDATE == "ADI_OTP_CMD_INVALIDATE"
ADI_OTP_CMD_IS_VALID == "ADI_OTP_CMD_IS_VALID"
ADI_OTP_CMD_IS_WRITTEN == "ADI_OTP_CMD_IS_WRITTEN"
ADI_OTP_CMD_LOCK == "ADI_OTP_CMD_LOCK"

\* libadiotp.h: the reserved field identifier that stands for the lock
ADI_OTP_ID_lock == 0

(* ---------------------------------------------------------------------- *)
(* Input domains.                                                          *)
(* ---------------------------------------------------------------------- *)
Handles == 1..MaxHandles

\* the field identifiers callers use: the reserved one and an ordinary one
OrdinaryIDs == {5}
FieldIDs == {ADI_OTP_ID_lock} \cup OrdinaryIDs

\* the byte strings a caller passes to write
Buffers == {<<>>, <<171>>, <<205, 171>>}

\* the capacities a caller reads with
Lens == {Len(b) : b \in Buffers}

\* what the caller's output variables hold before a call
Stale == Word(57005, 48879)

\* the versions a peer may report: around the library's own, and at the
\* edges of the 32-bit range
PeerMajors == {W(ADI_OTP_MAJOR), W(ADI_OTP_MAJOR + 1), Word(65535, 65535)}
PeerMinors == {W(ADI_OTP_MINOR - 1), W(ADI_OTP_MINOR), Word(32768, 0)}

\* the failures the transport itself reports
TransportErrors == {TEEC_ERROR_COMMUNICATION}

VARIABLES
    heap,        \* heap[h]: "unallocated", "allocated" or "freed" (calloc/free of struct adi_otp)
    ctx,         \* ctx[h]: the TEEC_Context of h: "uninit", "initialized", "finalized"
    session,     \* session[h]: the TEEC_Session of h: "none", "open", "closed"
    live,        \* the handles open returned and the caller has not closed
    peerVersion, \* what the peer answers VERSION with: value.a, value.b
    locked,      \* peer: the global lock
    fieldState,  \* peer: per field "UNWRITTEN", "WRITTEN" or "INVALID"
    fieldData,   \* peer: per field the bytes stored
    last         \* the call made last: arguments, transport calls, results

vars == <<heap, ctx, session, live, peerVersion, locked, fieldState, fieldData, last>>

(* ---------------------------------------------------------------------- *)
(* The secure peer and the transport in front of it.  An operation is the  *)
(* TEEC_Operation the client filled in: paramTypes, params[0].value.a,     *)
(* the temporary buffer of params[1] and its size.  A reply carries the    *)
(* status, the output value (a, b), the buffer and size written back, and  *)
(* the peer's state after the command.                                     *)
(* ---------------------------------------------------------------------- *)
Operation(types, a, buf, size) ==
    [paramTypes |-> types, a |-> a, buf |-> buf, size |-> size]

Reply(res, a, b, buf, size, lk, fs, fd) ==
    [res |-> res, a |-> a, b |-> b, buf |-> buf, size |-> size,
     locked |-> lk, fieldState |-> fs, fieldData |-> fd]

\* the peer refuses, or the transport fails: nothing changes, nothing is output
Rejected(res, op) ==
    Reply(res, W(0), W(0), <<>>, op.size, locked, fieldState, fieldData)

\* the peer answers a query: nothing changes
Answered(a, b, op) ==
    Reply(TEEC_SUCCESS, a, b, <<>>, op.size, locked, fieldState, fieldData)

Bool(p) == IF p THEN W(1) ELSE W(0)

Prefix(s, n) == IF Len(s) <= n THEN s ELSE SubSeq(s, 1, n)

PeerVersion(op) == {Answered(peerVersion.a, peerVersion.b, op)}

PeerRead(op) ==
    LET id == op.a
    IN  IF id = ADI_OTP_ID_lock THEN {Rejected(TEEC_ERROR_BAD_PARAMETERS, op)}
        ELSE IF fieldState[id] = "UNWRITTEN" THEN {Rejected(TEEC_ERROR_ITEM_NOT_FOUND, op)}
        ELSE IF fieldState[id] = "INVALID" THEN {Rejected(TEEC_ERROR_ACCESS_DENIED, op)}
        ELSE IF Len(fieldData[id]) > op.size
        THEN \* the stored value does not fit: the peer reports the length it
             \* needs and fails, or truncates
             {Reply(TEEC_ERROR_SHORT_BUFFER, W(0), W(0), <<>>, Len(fieldData[id]),
                    locked, fieldState, fieldData),
              Reply(TEEC_SUCCESS, W(0), W(0), Prefix(fieldData[id], op.size), op.size,
                    locked, fieldState, fieldData)}
        ELSE {Reply(TEEC_SUCCESS, W(0), W(0), fieldData[id], Len(fieldData[id]),
                    locked, fieldState, fieldData)}

PeerWrite(op) ==
    LET id == op.a
    IN  IF id = ADI_OTP_ID_lock THEN {Rejected(TEEC_ERROR_BAD_PARAMETERS, op)}
        ELSE IF locked \/ fieldState[id] # "UNWRITTEN"
        THEN {Rejected(TEEC_ERROR_ACCESS_DENIED, op)}
        ELSE {Reply(TEEC_SUCCESS, W(0), W(0), <<>>, op.size, locked,
                    [fieldState EXCEPT ![id] = "WRITTEN"],
                    [fieldData EXCEPT ![id] = Prefix(op.buf, op.size)])}

PeerInvalidate(op) ==
    LET id == op.a
    IN  IF id = ADI_OTP_ID_lock THEN {Rejected(TEEC_ERROR_BAD_PARAMETERS, op)}
        ELSE IF locked \/ fieldState[id] # "WRITTEN"
        THEN {Rejected(TEEC_ERROR_ACCESS_DENIED, op)}
        ELSE {Reply(TEEC_SUCCESS, W(0), W(0), <<>>, op.size, locked,
                    [fieldState EXCEPT ![id] = "INVALID"], fieldData)}

PeerIsValid(op) ==
    LET id == op.a
    IN  IF id = ADI_OTP_ID_lock THEN {Answered(Bool(locked), W(0), op)}
        ELSE {Answered(Bool(fieldState[id] = "WRITTEN"), W(0), op)}

PeerIsWritten(op) ==
    LET id == op.a
    IN  IF id = ADI_OTP_ID_lock THEN {Answered(Bool(locked), W(0), op)}
        ELSE {Answered(Bool(fieldState[id] # "UNWRITTEN"), W(0), op)}

PeerLock(op) ==
    {Reply(TEEC_SUCCESS, W(0), W(0), <<>>, op.size, TRUE, fieldState, fieldData)}

\* every reply one invocation of cmd may get in the current state
TEEC_InvokeCommand(cmd, op) ==
    {Rejected(e, op) : e \in TransportErrors}
    \cup CASE cmd = ADI_OTP_CMD_VERSION -> PeerVersion(op)
           [] cmd = ADI_OTP_CMD_READ -> PeerRead(op)
           [] cmd = ADI_OTP_CMD_WRITE -> PeerWrite(op)
           [] cmd = ADI_OTP_CMD_INVALIDATE -> PeerInvalidate(op)
           [] cmd = ADI_OTP_CMD_IS_VALID -> PeerIsValid(op)
           [] cmd = ADI_OTP_CMD_IS_WRITTEN -> PeerIsWritten(op)
           [] cmd = ADI_OTP_CMD_LOCK -> PeerLock(op)

\* the results of TEEC_InitializeContext and of TEEC_OpenSession
TEEC_InitializeContext == {TEEC_SUCCESS} \cup TransportErrors
TEEC_OpenSession == {TEEC_SUCCESS} \cup TransportErrors


(* ---------------------------------------------------------------------- *)
(* Bookkeeping of a call: the transport calls it made, in order, each with *)
(* the result the transport gave.                                          *)
(* ---------------------------------------------------------------------- *)
NoOperation == Operation(<<>>, 0, <<>>, 0)

Call(fn, cmd, op, res) == [fn |-> fn, cmd |-> cmd, op |-> op, res |-> res]

InitializeContextCall(res) == Call("TEEC_InitializeContext", "", NoOperation, res)
OpenSessionCall(res) == Call("TEEC_OpenSession", "", NoOperation, res)
CloseSessionCall == Call("TEEC_CloseSession", "", NoOperation, TEEC_SUCCESS)
FinalizeContextCall == Call("TEEC_FinalizeContext", "", NoOperation, TEEC_SUCCESS)
InvokeCall(cmd, op, rep) == Call("TEEC_InvokeCommand", cmd, op, rep.res)

\* what a reply puts on the wire for the client
Wire(rep) == [res |-> rep.res, a |-> rep.a, b |-> rep.b, buf |-> rep.buf, size |-> rep.size]

NoReply == [res |-> TEEC_SUCCESS, a |-> W(0), b |-> W(0), buf |-> <<>>, size |-> 0]

\* what a call returns: nothing (void), or one value
Void == <<>>
Returns(v) == <<v>>

\* the record of a call: its name, the handle it was given (for open, the
\* allocation it made), what it returned, the transport calls it made, the
\* reply to its command, and the caller's output variables before and after
Last(name, otp, ret, calls, rep, pre, post) ==
    [name |-> name, otp |-> otp, ret |-> ret, calls |-> calls, rep |-> rep,
     pre |-> pre, post |-> post]

\* the peer's state after a reply
PeerBecomes(rep) ==
    /\ locked' = rep.locked
    /\ fieldState' = rep.fieldState
    /\ fieldData' = rep.fieldData

PeerUnchanged == UNCHANGED <<locked, fieldState, fieldData>>

(* ---------------------------------------------------------------------- *)
(* adi_otp_get_version and adi_otp_check_version, as functions of the      *)
(* reply to the one VERSION command they send.                             *)
(* ---------------------------------------------------------------------- *)
VersionOperation ==
    Operation(TEEC_PARAM_TYPES(TEEC_VALUE_OUTPUT, TEEC_NONE, TEEC_NONE, TEEC_NONE),
              0, <<>>, 0)

\* the return value and *major, *minor after the call
GetVersionResult(rep, major, minor) ==
    IF TEEC_SUCCESS # rep.res
    THEN [ret |-> ToInt(rep.res), major |-> major, minor |-> minor]
    ELSE [ret |-> ToInt(TEEC_SUCCESS), major |-> ToInt(rep.a), minor |-> ToInt(rep.b)]

\* faulty variant: the minor version is not compared
adi_otp_check_version_NoMinor(rep) ==
    LET got == GetVersionResult(rep, ToInt(Stale), ToInt(Stale))
    IN  IF got.ret # 0 THEN got.ret
        ELSE IF got.major # ADI_OTP_MAJOR THEN -EINVAL
        ELSE 0

adi_otp_check_version(rep) ==
    LET got == GetVersionResult(rep, ToInt(Stale), ToInt(Stale))
    IN  IF got.ret # 0 THEN got.ret
        ELSE IF got.major # ADI_OTP_MAJOR THEN -EINVAL
        ELSE IF got.minor < ADI_OTP_MINOR THEN -EINVAL
        ELSE 0

(* ---------------------------------------------------------------------- *)
(* adi_otp_open                                                            *)
(* ---------------------------------------------------------------------- *)
Unallocated == {h \in Handles : heap[h] = "unallocated"}

\* the allocation calloc hands out next
NewHandle == CHOOSE h \in Unallocated : \A g \in Unallocated : h <= g

\* calloc fails
OpenNoMemory ==
    /\ last' = Last("adi_otp_open", NULL, Returns(NULL), <<>>, NoReply, <<>>, <<>>)
    /\ UNCHANGED <<heap, ctx, session, live>>

\* TEEC_InitializeContext failed with r1: goto cleanup
OpenCleanup(ret, r1) ==
    /\ heap' = [heap EXCEPT ![ret] = "freed"]
    /\ last' = Last("adi_otp_open", ret, Returns(NULL), <<InitializeContextCall(r1)>>,
                    NoReply, <<>>, <<>>)
    /\ UNCHANGED <<ctx, session, live>>

\* faulty variant: a failed session open jumps to cleanup, past finalize
OpenFinalize_ToCleanup(ret, r1, r2) ==
    /\ ctx' = [ctx EXCEPT ![ret] = "initialized"]
    /\ heap' = [heap EXCEPT ![ret] = "freed"]
    /\ last' = Last("adi_otp_open", ret, Returns(NULL),
                    <<InitializeContextCall(r1), OpenSessionCall(r2)>>,
                    NoReply, <<>>, <<>>)
    /\ UNCHANGED <<session, live>>

\* TEEC_OpenSession failed with r2: goto finalize
OpenFinalize(ret, r1, r2) ==
    /\ ctx' = [ctx EXCEPT ![ret] = "finalized"]
    /\ heap' = [heap EXCEPT ![ret] = "freed"]
    /\ last' = Last("adi_otp_open", ret, Returns(NULL),
                    <<InitializeContextCall(r1), OpenSessionCall(r2), FinalizeContextCall>>,
                    NoReply, <<>>, <<>>)
    /\ UNCHANGED <<session, live>>

\* adi_otp_check_version failed on the reply rep: goto finalize
OpenGateFailed(ret, r1, r2, rep) ==
    /\ ctx' = [ctx EXCEPT ![ret] = "finalized"]
    /\ session' = [session EXCEPT ![ret] = "open"]
    /\ heap' = [heap EXCEPT ![ret] = "freed"]
    /\ last' = Last("adi_otp_open", ret, Returns(NULL),
                    <<InitializeContextCall(r1), OpenSessionCall(r2),
                      InvokeCall(ADI_OTP_CMD_VERSION, VersionOperation, rep),
                      FinalizeContextCall>>,
                    Wire(rep), <<>>, <<>>)
    /\ UNCHANGED live

\* return ret
OpenReturn(ret, r1, r2, rep) ==
    /\ ctx' = [ctx EXCEPT ![ret] = "initialized"]
    /\ session' = [session EXCEPT ![ret] = "open"]
    /\ heap' = [heap EXCEPT ![ret] = "allocated"]
    /\ live' = live \cup {ret}
    /\ last' = Last("adi_otp_open", ret, Returns(ret),
                    <<InitializeContextCall(r1), OpenSessionCall(r2),
                      InvokeCall(ADI_OTP_CMD_VERSION, VersionOperation, rep)>>,
                    Wire(rep), <<>>, <<>>)

\* faulty variant: the result of adi_otp_check_version is ignored
Open_IgnoreGate(ret) ==
    \E r1 \in TEEC_InitializeContext :
        IF TEEC_SUCCESS # r1 THEN OpenCleanup(ret, r1)
        ELSE \E r2 \in TEEC_OpenSession :
            IF TEEC_SUCCESS # r2 THEN OpenFinalize(ret, r1, r2)
            ELSE \E rep \in TEEC_InvokeCommand(ADI_OTP_CMD_VERSION, VersionOperation) :
                OpenReturn(ret, r1, r2, rep)

\* the body of adi_otp_open once calloc returned ret
Open(ret) ==
    \E r1 \in TEEC_InitializeContext :
        IF TEEC_SUCCESS # r1 THEN OpenCleanup(ret, r1)
        ELSE \E r2 \in TEEC_OpenSession :
            IF TEEC_SUCCESS # r2 THEN OpenFinalize(ret, r1, r2)
            ELSE \E rep \in TEEC_InvokeCommand(ADI_OTP_CMD_VERSION, VersionOperation) :
                IF ToU32(adi_otp_check_version(rep)) # W(0)
                THEN OpenGateFailed(ret, r1, r2, rep)
                ELSE OpenReturn(ret, r1, r2, rep)

adi_otp_open ==
    /\ \/ OpenNoMemory
       \/ /\ Unallocated # {}
          /\ Open(NewHandle)
    /\ UNCHANGED peerVersion
    /\ PeerUnchanged

(* ---------------------------------------------------------------------- *)
(* adi_otp_close                                                           *)
(* ---------------------------------------------------------------------- *)
\* faulty variant: the context is finalized before the session is closed
adi_otp_close_FinalizeFirst(otp) ==
    IF otp = NULL
    THEN /\ last' = Last("adi_otp_close", otp, Void, <<>>, NoReply, <<>>, <<>>)
         /\ UNCHANGED <<heap, ctx, session, live>>
    ELSE /\ session' = [session EXCEPT ![otp] = "closed"]
         /\ ctx' = [ctx EXCEPT ![otp] = "finalized"]
         /\ live' = live \ {otp}
         /\ last' = Last("adi_otp_close", otp, Void,
                         <<FinalizeContextCall, CloseSessionCall>>, NoReply, <<>>, <<>>)
         /\ UNCHANGED heap

\* faulty variant: no test for NULL
adi_otp_close_NoNullCheck(otp) ==
    /\ session' = [h \in Handles |-> IF h = otp THEN "closed" ELSE session[h]]
    /\ ctx' = [h \in Handles |-> IF h = otp THEN "finalized" ELSE ctx[h]]
    /\ live' = live \ {otp}
    /\ last' = Last("adi_otp_close", otp, Void,
                    <<CloseSessionCall, FinalizeContextCall>>, NoReply, <<>>, <<>>)
    /\ UNCHANGED heap

\* faulty variant: one context and one session shared by every handle
adi_otp_close_SharedSession(otp) ==
    IF otp = NULL
    THEN /\ last' = Last("adi_otp_close", otp, Void, <<>>, NoReply, <<>>, <<>>)
         /\ UNCHANGED <<heap, ctx, session, live>>
    ELSE /\ session' = [h \in Handles |-> IF h \in live THEN "closed" ELSE session[h]]
         /\ ctx' = [h \in Handles |-> IF h \in live THEN "finalized" ELSE ctx[h]]
         /\ live' = live \ {otp}
         /\ last' = Last("adi_otp_close", otp, Void, <<CloseSessionCall, FinalizeContextCall>>,
                         NoReply, <<>>, <<>>)
         /\ UNCHANGED heap

adi_otp_close(otp) ==
    IF otp = NULL
    THEN /\ last' = Last("adi_otp_close", otp, Void, <<>>, NoReply, <<>>, <<>>)
         /\ UNCHANGED <<heap, ctx, session, live>>
    ELSE /\ session' = [session EXCEPT ![otp] = "closed"]
         /\ ctx' = [ctx EXCEPT ![otp] = "finalized"]
         /\ live' = live \ {otp}
         /\ last' = Last("adi_otp_close", otp, Void,
                         <<CloseSessionCall, FinalizeContextCall>>, NoReply, <<>>, <<>>)
         /\ UNCHANGED heap

(* ---------------------------------------------------------------------- *)
(* The operations on a live handle.  Each sends one command and returns    *)
(* on its reply.                                                           *)
(* ---------------------------------------------------------------------- *)
Invoked(name, otp, cmd, op, rep, ret, pre, post) ==
    /\ PeerBecomes(rep)
    /\ last' = Last(name, otp, Returns(ret), <<InvokeCall(cmd, op, rep)>>, Wire(rep), pre, post)
    /\ UNCHANGED <<heap, ctx, session, live, peerVersion>>

\* a caller's buffer of n bytes before a read fills it
StaleBuf(n) == [i \in 1..n |-> 255]

\* a buffer after the transport copied data to its front
Filled(old, data) ==
    IF Len(data) >= Len(old) THEN data
    ELSE data \o SubSeq(old, Len(data) + 1, Len(old))

adi_otp_get_version(otp, major, minor) ==
    \E rep \in TEEC_InvokeCommand(ADI_OTP_CMD_VERSION, VersionOperation) :
        LET got == GetVersionResult(rep, major, minor)
        IN  Invoked("adi_otp_get_version", otp, ADI_OTP_CMD_VERSION, VersionOperation, rep,
                    got.ret, <<major, minor>>, <<got.major, got.minor>>)

\* faulty variant: the buffer of a read is declared an input
ReadOperation_InputBuffer(id, buf, len) ==
    Operation(TEEC_PARAM_TYPES(TEEC_VALUE_INPUT, TEEC_MEMREF_TEMP_INPUT, TEEC_NONE, TEEC_NONE),
              id, buf, len)

ReadOperation(id, buf, len) ==
    Operation(TEEC_PARAM_TYPES(TEEC_VALUE_INPUT, TEEC_MEMREF_TEMP_OUTPUT, TEEC_NONE, TEEC_NONE),
              id, buf, len)

\* faulty variant: a failed read returns an error code of the library's own
adi_otp_read_OwnError(otp, id, buf, len) ==
    \E rep \in TEEC_InvokeCommand(ADI_OTP_CMD_READ, ReadOperation(id, buf, len)) :
        IF TEEC_SUCCESS # rep.res
        THEN Invoked("adi_otp_read", otp, ADI_OTP_CMD_READ, ReadOperation(id, buf, len), rep,
                     -EINVAL, <<len, buf>>, <<len, Filled(buf, rep.buf)>>)
        ELSE Invoked("adi_otp_read", otp, ADI_OTP_CMD_READ, ReadOperation(id, buf, len), rep,
                     0, <<len, buf>>, <<rep.size, Filled(buf, rep.buf)>>)

\* faulty variant: the status of the invocation is not looked at
adi_otp_read_NoStatusCheck(otp, id, buf, len) ==
    \E rep \in TEEC_InvokeCommand(ADI_OTP_CMD_READ, ReadOperation(id, buf, len)) :
        Invoked("adi_otp_read", otp, ADI_OTP_CMD_READ, ReadOperation(id, buf, len), rep,
                0, <<len, buf>>, <<rep.size, Filled(buf, rep.buf)>>)

\* faulty variant: the size is copied back before the status is looked at
adi_otp_read_StoreFirst(otp, id, buf, len) ==
    \E rep \in TEEC_InvokeCommand(ADI_OTP_CMD_READ, ReadOperation(id, buf, len)) :
        IF TEEC_SUCCESS # rep.res
        THEN Invoked("adi_otp_read", otp, ADI_OTP_CMD_READ, ReadOperation(id, buf, len), rep,
                     ToInt(rep.res), <<len, buf>>, <<rep.size, Filled(buf, rep.buf)>>)
        ELSE Invoked("adi_otp_read", otp, ADI_OTP_CMD_READ, ReadOperation(id, buf, len), rep,
                     0, <<len, buf>>, <<rep.size, Filled(buf, rep.buf)>>)

adi_otp_read(otp, id, buf, len) ==
    \E rep \in TEEC_InvokeCommand(ADI_OTP_CMD_READ, ReadOperation(id, buf, len)) :
        IF TEEC_SUCCESS # rep.res
        THEN Invoked("adi_otp_read", otp, ADI_OTP_CMD_READ, ReadOperation(id, buf, len), rep,
                     ToInt(rep.res), <<len, buf>>, <<len, Filled(buf, rep.buf)>>)
        ELSE Invoked("adi_otp_read", otp, ADI_OTP_CMD_READ, ReadOperation(id, buf, len), rep,
                     0, <<len, buf>>, <<rep.size, Filled(buf, rep.buf)>>)

WriteOperation(id, buf, len) ==
    Operation(TEEC_PARAM_TYPES(TEEC_VALUE_INPUT, TEEC_MEMREF_TEMP_INPUT, TEEC_NONE, TEEC_NONE),
              id, buf, len)

\* faulty variant: the size sent is one less than the length supplied
adi_otp_write_ShortLen(otp, id, buf, len) ==
    \E rep \in TEEC_InvokeCommand(ADI_OTP_CMD_WRITE, WriteOperation(id, buf, len - 1)) :
        IF TEEC_SUCCESS # rep.res
        THEN Invoked("adi_otp_write", otp, ADI_OTP_CMD_WRITE, WriteOperation(id, buf, len - 1),
                     rep, ToInt(rep.res), <<>>, <<>>)
        ELSE Invoked("adi_otp_write", otp, ADI_OTP_CMD_WRITE, WriteOperation(id, buf, len - 1),
                     rep, 0, <<>>, <<>>)

adi_otp_write(otp, id, buf, len) ==
    \E rep \in TEEC_InvokeCommand(ADI_OTP_CMD_WRITE, WriteOperation(id, buf, len)) :
        IF TEEC_SUCCESS # rep.res
        THEN Invoked("adi_otp_write", otp, ADI_OTP_CMD_WRITE, WriteOperation(id, buf, len), rep,
                     ToInt(rep.res), <<>>, <<>>)
        ELSE Invoked("adi_otp_write", otp, ADI_OTP_CMD_WRITE, WriteOperation(id, buf, len), rep,
                     0, <<>>, <<>>)

InvalidateOperation(id) ==
    Operation(TEEC_PARAM_TYPES(TEEC_VALUE_INPUT, TEEC_NONE, TEEC_NONE, TEEC_NONE),
              id, <<>>, 0)

\* faulty variant: 0 is returned whatever the status
adi_otp_invalidate_IgnoreStatus(otp, id) ==
    \E rep \in TEEC_InvokeCommand(ADI_OTP_CMD_INVALIDATE, InvalidateOperation(id)) :
        Invoked("adi_otp_invalidate", otp, ADI_OTP_CMD_INVALIDATE, InvalidateOperation(id),
                rep, 0, <<>>, <<>>)

adi_otp_invalidate(otp, id) ==
    \E rep \in TEEC_InvokeCommand(ADI_OTP_CMD_INVALIDATE, InvalidateOperation(id)) :
        IF TEEC_SUCCESS # rep.res
        THEN Invoked("adi_otp_invalidate", otp, ADI_OTP_CMD_INVALIDATE, InvalidateOperation(id),
                     rep, ToInt(rep.res), <<>>, <<>>)
        ELSE Invoked("adi_otp_invalidate", otp, ADI_OTP_CMD_INVALIDATE, InvalidateOperation(id),
                     rep, 0, <<>>, <<>>)

QueryOperation(id) ==
    Operation(TEEC_PARAM_TYPES(TEEC_VALUE_INPUT, TEEC_VALUE_OUTPUT, TEEC_NONE, TEEC_NONE),
              id, <<>>, 0)

\* faulty variant: the command sent is the one of is_written
adi_otp_is_valid_WrongCommand(otp, id, valid) ==
    \E rep \in TEEC_InvokeCommand(ADI_OTP_CMD_IS_WRITTEN, QueryOperation(id)) :
        IF TEEC_SUCCESS # rep.res
        THEN Invoked("adi_otp_is_valid", otp, ADI_OTP_CMD_IS_WRITTEN, QueryOperation(id), rep,
                     ToInt(rep.res), <<valid>>, <<valid>>)
        ELSE Invoked("adi_otp_is_valid", otp, ADI_OTP_CMD_IS_WRITTEN, QueryOperation(id), rep,
                     0, <<valid>>, <<rep.a>>)

adi_otp_is_valid(otp, id, valid) ==
    \E rep \in TEEC_InvokeCommand(ADI_OTP_CMD_IS_VALID, QueryOperation(id)) :
        IF TEEC_SUCCESS # rep.res
        THEN Invoked("adi_otp_is_valid", otp, ADI_OTP_CMD_IS_VALID, QueryOperation(id), rep,
                     ToInt(rep.res), <<valid>>, <<valid>>)
        ELSE Invoked("adi_otp_is_valid", otp, ADI_OTP_CMD_IS_VALID, QueryOperation(id), rep,
                     0, <<valid>>, <<rep.a>>)

\* faulty variant: the command sent is the one of adi_otp_is_valid
IsWritten_WrongCommand(entry, otp, id, written) ==
    \E rep \in TEEC_InvokeCommand(ADI_OTP_CMD_IS_VALID, QueryOperation(id)) :
        IF TEEC_SUCCESS # rep.res
        THEN Invoked(entry, otp, ADI_OTP_CMD_IS_VALID, QueryOperation(id), rep,
                     ToInt(rep.res), <<written>>, <<written>>)
        ELSE Invoked(entry, otp, ADI_OTP_CMD_IS_VALID, QueryOperation(id), rep,
                     0, <<written>>, <<rep.a>>)

\* the body of adi_otp_is_written, entered under the name of the function
\* the caller called
IsWritten(entry, otp, id, written) ==
    \E rep \in TEEC_InvokeCommand(ADI_OTP_CMD_IS_WRITTEN, QueryOperation(id)) :
        IF TEEC_SUCCESS # rep.res
        THEN Invoked(entry, otp, ADI_OTP_CMD_IS_WRITTEN, QueryOperation(id), rep,
                     ToInt(rep.res), <<written>>, <<written>>)
        ELSE Invoked(entry, otp, ADI_OTP_CMD_IS_WRITTEN, QueryOperation(id), rep,
                     0, <<written>>, <<rep.a>>)

adi_otp_is_written(otp, id, written) ==
    IsWritten("adi_otp_is_written", otp, id, written)

\* faulty variant: the field asked about is not the reserved one
adi_otp_is_locked_WrongField(otp, lockedOut) ==
    IsWritten("adi_otp_is_locked", otp, CHOOSE id \in OrdinaryIDs : TRUE, lockedOut)

adi_otp_is_locked(otp, lockedOut) ==
    IsWritten("adi_otp_is_locked", otp, ADI_OTP_ID_lock, lockedOut)

LockOperation ==
    Operation(TEEC_PARAM_TYPES(TEEC_NONE, TEEC_NONE, TEEC_NONE, TEEC_NONE), 0, <<>>, 0)

\* faulty variant: the command sent is the one of adi_otp_is_written
adi_otp_lock_WrongCommand(otp) ==
    \E rep \in TEEC_InvokeCommand(ADI_OTP_CMD_IS_WRITTEN, LockOperation) :
        IF TEEC_SUCCESS # rep.res
        THEN Invoked("adi_otp_lock", otp, ADI_OTP_CMD_IS_WRITTEN, LockOperation, rep,
                     ToInt(rep.res), <<>>, <<>>)
        ELSE Invoked("adi_otp_lock", otp, ADI_OTP_CMD_IS_WRITTEN, LockOperation, rep,
                     0, <<>>, <<>>)

adi_otp_lock(otp) ==
    \E rep \in TEEC_InvokeCommand(ADI_OTP_CMD_LOCK, LockOperation) :
        IF TEEC_SUCCESS # rep.res
        THEN Invoked("adi_otp_lock", otp, ADI_OTP_CMD_LOCK, LockOperation, rep,
                     ToInt(rep.res), <<>>, <<>>)
        ELSE Invoked("adi_otp_lock", otp, ADI_OTP_CMD_LOCK, LockOperation, rep,
                     0, <<>>, <<>>)

(* ---------------------------------------------------------------------- *)
(* The callers: any call, on any live handle, with any argument.           *)
(* ---------------------------------------------------------------------- *)
Close ==
    /\ \E otp \in live \cup {NULL} : adi_otp_close(otp)
    /\ UNCHANGED peerVersion
    /\ PeerUnchanged

GetVersion == \E otp \in live : adi_otp_get_version(otp, ToInt(Stale), ToInt(Stale))

Read == \E otp \in live, id \in FieldIDs, len \in Lens : adi_otp_read(otp, id, StaleBuf(len), len)

Write == \E otp \in live, id \in FieldIDs, buf \in Buffers : adi_otp_write(otp, id, buf, Len(buf))

Invalidate == \E otp \in live, id \in FieldIDs : adi_otp_invalidate(otp, id)

IsValid == \E otp \in live, id \in FieldIDs : adi_otp_is_valid(otp, id, Stale)

IsWrittenCall == \E otp \in live, id \in FieldIDs : adi_otp_is_written(otp, id, Stale)

IsLocked == \E otp \in live : adi_otp_is_locked(otp, Stale)

Lock == \E otp \in live : adi_otp_lock(otp)

(* ---------------------------------------------------------------------- *)
(* The specification.                                                      *)
(* ---------------------------------------------------------------------- *)
Init ==
    /\ heap = [h \in Handles |-> "unallocated"]
    /\ ctx = [h \in Handles |-> "uninit"]
    /\ session = [h \in Handles |-> "none"]
    /\ live = {}
    /\ peerVersion \in [a : PeerMajors, b : PeerMinors]
    /\ locked = FALSE
    /\ fieldState = [id \in OrdinaryIDs |-> "UNWRITTEN"]
    /\ fieldData = [id \in OrdinaryIDs |-> <<>>]
    /\ last = Last("none", NULL, Void, <<>>, NoReply, <<>>, <<>>)

Next ==
    \/ adi_otp_open
    \/ Close
    \/ GetVersion
    \/ Read
    \/ Write
    \/ Invalidate
    \/ IsValid
    \/ IsWrittenCall
    \/ IsLocked
    \/ Lock

Spec == Init /\ [][Next]_vars


(* ---------------------------------------------------------------------- *)
(* Two sessions, two fields: the peer holds two ordinary fields and its     *)
(* version is the library's own; callers open, close and use the five       *)
(* field operations on either field.                                        *)
(* ---------------------------------------------------------------------- *)
TwoFieldIDs == {5, 6}

\* the bytes written and the capacities read with in these runs
TwoBuffers == {<<205, 171>>}

TwoLens == {1, 2}

ReadTwo ==
    \E otp \in live, id \in TwoFieldIDs, len \in TwoLens :
        adi_otp_read(otp, id, StaleBuf(len), len)

WriteTwo ==
    \E otp \in live, id \in TwoFieldIDs, buf \in TwoBuffers :
        adi_otp_write(otp, id, buf, Len(buf))

InvalidateTwo == \E otp \in live, id \in TwoFieldIDs : adi_otp_invalidate(otp, id)

IsValidTwo == \E otp \in live, id \in TwoFieldIDs : adi_otp_is_valid(otp, id, Stale)

IsWrittenTwo == \E otp \in live, id \in TwoFieldIDs : adi_otp_is_written(otp, id, Stale)

InitTwo ==
    /\ heap = [h \in Handles |-> "unallocated"]
    /\ ctx = [h \in Handles |-> "uninit"]
    /\ session = [h \in Handles |-> "none"]
    /\ live = {}
    /\ peerVersion = [a |-> W(ADI_OTP_MAJOR), b |-> W(ADI_OTP_MINOR)]
    /\ locked = FALSE
    /\ fieldState = [id \in TwoFieldIDs |-> "UNWRITTEN"]
    /\ fieldData = [id \in TwoFieldIDs |-> <<>>]
    /\ last = Last("none", NULL, Void, <<>>, NoReply, <<>>, <<>>)

NextTwo ==
    \/ adi_otp_open
    \/ Close
    \/ ReadTwo
    \/ WriteTwo
    \/ InvalidateTwo
    \/ IsValidTwo
    \/ IsWrittenTwo

SpecTwo == InitTwo /\ [][NextTwo]_vars

(* ---------------------------------------------------------------------- *)
(* Vocabulary of the properties: what the record of the last call shows.   *)
(* ---------------------------------------------------------------------- *)
OpenDone == last.name = "adi_otp_open"

CallsOf(fn) == {i \in DOMAIN last.calls : last.calls[i].fn = fn}

Succeeded(fn) == \E i \in CallsOf(fn) : last.calls[i].res = TEEC_SUCCESS

Failed(fn) == \E i \in CallsOf(fn) : last.calls[i].res # TEEC_SUCCESS

\* open got its context and its session
SessionOpened ==
    /\ OpenDone
    /\ Succeeded("TEEC_InitializeContext")
    /\ Succeeded("TEEC_OpenSession")

VersionCalls ==
    {i \in CallsOf("TEEC_InvokeCommand") : last.calls[i].cmd = ADI_OTP_CMD_VERSION}

VersionOk == \E i \in VersionCalls : last.calls[i].res = TEEC_SUCCESS

VersionFailed == \E i \in VersionCalls : last.calls[i].res # TEEC_SUCCESS

\* u < v as 32-bit unsigned values
ULess(u, v) == u.hi < v.hi \/ (u.hi = v.hi /\ u.lo < v.lo)

\* the version the peer reported, as the unsigned values it sent
MajorDiffers == last.rep.a # W(ADI_OTP_MAJOR)

MinorOlder == ULess(last.rep.b, W(ADI_OTP_MINOR))

Incompatible == SessionOpened /\ VersionOk /\ (MajorDiffers \/ MinorOlder)

Compatible == SessionOpened /\ VersionOk /\ ~MajorDiffers /\ ~MinorOlder

\* open failed in the transport: connect, session open or the VERSION command
TransportFailure ==
    /\ OpenDone
    /\ \/ Failed("TEEC_InitializeContext")
       \/ Failed("TEEC_OpenSession")
       \/ VersionFailed

\* the operations on a live handle
Operations ==
    {"adi_otp_get_version", "adi_otp_read", "adi_otp_write", "adi_otp_invalidate",
     "adi_otp_is_valid", "adi_otp_is_written", "adi_otp_is_locked", "adi_otp_lock"}

(* ---------------------------------------------------------------------- *)
(* C1..C10                                                                 *)
(* ---------------------------------------------------------------------- *)

\* C1: when connect and session open succeeded and the version gate then
\* fails (VERSION fails, or the version is incompatible), open calls
\* TEEC_CloseSession and TEEC_FinalizeContext before it returns, and
\* returns NULL.
C1_GateFailureClosesSession ==
    (SessionOpened /\ (VersionFailed \/ Incompatible)) =>
        /\ CallsOf("TEEC_CloseSession") # {}
        /\ CallsOf("TEEC_FinalizeContext") # {}
        /\ last.ret = Returns(NULL)

\* C2: when connect fails, or connect succeeds and session open fails, open
\* returns NULL and holds nothing: the allocation is freed, no session is
\* open, and the context is finalized exactly when it was initialized.
C2_EarlyFailureReleasesAll ==
    (OpenDone /\ (Failed("TEEC_InitializeContext") \/ Failed("TEEC_OpenSession"))) =>
        /\ last.ret = Returns(NULL)
        /\ heap[last.otp] = "freed"
        /\ session[last.otp] = "none"
        /\ CallsOf("TEEC_InvokeCommand") = {}
        /\ last.otp \notin live
        /\ Failed("TEEC_InitializeContext") =>
              (ctx[last.otp] = "uninit" /\ CallsOf("TEEC_FinalizeContext") = {})
        /\ Succeeded("TEEC_InitializeContext") =>
              (ctx[last.otp] = "finalized" /\ Cardinality(CallsOf("TEEC_FinalizeContext")) = 1)

\* C2 witness: open returned after connect succeeded and session open failed
C2_Witness ==
    OpenDone /\ Succeeded("TEEC_InitializeContext") /\ Failed("TEEC_OpenSession")

\* C3: with connect, session open and VERSION all successful, open returns
\* NULL when the peer's major differs from ADI_OTP_MAJOR (any minor), and
\* when major is equal and minor is less than ADI_OTP_MINOR.
C3_IncompatibleVersionFails == Incompatible => last.ret = Returns(NULL)

\* C3 witness: open returned on a peer with the right major and an older minor
C3_Witness == Incompatible /\ ~MajorDiffers /\ MinorOlder

\* C4: with connect, session open and VERSION all successful, open returns
\* a live handle for every peer version with major = ADI_OTP_MAJOR and
\* minor >= ADI_OTP_MINOR, over all 32-bit unsigned values.
C4_CompatibleVersionOpens ==
    Compatible => (last.ret = Returns(last.otp) /\ last.otp \in live)

\* C5: what open returns for a version incompatibility differs from what it
\* returns for a transport failure: of two calls of open in a row, the one
\* failing on the version and the next in the transport, the results differ.
C5_IncompatibilityDistinguished ==
    [][(Incompatible /\ TransportFailure') => last.ret # last'.ret]_vars

\* C6: an open that gets its session sends exactly one VERSION command,
\* after TEEC_OpenSession and no other command; a handle is returned, and
\* so is usable for field and lock commands, only when the gate passed.
C6_GateOnceBeforeCommands ==
    /\ SessionOpened =>
          /\ Cardinality(VersionCalls) = 1
          /\ CallsOf("TEEC_InvokeCommand") = VersionCalls
          /\ \A i \in VersionCalls, j \in CallsOf("TEEC_OpenSession") : j < i
    /\ (OpenDone /\ last.ret # Returns(NULL)) => (Compatible /\ last.otp \in live)
    /\ (OpenDone /\ last.ret = Returns(NULL)) => last.otp \notin live
    /\ last.name \in Operations => session[last.otp] = "open"

\* C6 witness: open returned a handle
C6_Witness == OpenDone /\ last.ret # Returns(NULL)

\* C7: every operation on a live handle makes exactly one transport call, a
\* TEEC_InvokeCommand, and returns 0 when its status is TEEC_SUCCESS and
\* the status itself, bit for bit, otherwise.
C7_OneInvokeStatusPassedThrough ==
    last.name \in Operations =>
        /\ Len(last.calls) = 1
        /\ last.calls[1].fn = "TEEC_InvokeCommand"
        /\ last.calls[1].res = TEEC_SUCCESS => last.ret = Returns(0)
        /\ last.calls[1].res # TEEC_SUCCESS =>
              /\ last.ret # Returns(0)
              /\ Len(last.ret) = 1
              /\ ToU32(last.ret[1]) = last.calls[1].res

\* C7 witness: a read the peer refused
C7_Witness ==
    /\ last.name = "adi_otp_read"
    /\ last.calls[1].res = TEEC_ERROR_ITEM_NOT_FOUND

\* C8: close of a live handle calls TEEC_CloseSession and then
\* TEEC_FinalizeContext, each once, and returns nothing.
C8_CloseSessionThenFinalize ==
    (last.name = "adi_otp_close" /\ last.otp # NULL) =>
        /\ Len(last.calls) = 2
        /\ last.calls[1].fn = "TEEC_CloseSession"
        /\ last.calls[2].fn = "TEEC_FinalizeContext"
        /\ last.ret = Void
        /\ session[last.otp] = "closed"
        /\ ctx[last.otp] = "finalized"

\* C8 witness: a live handle was closed
C8_Witness == last.name = "adi_otp_close" /\ last.otp # NULL

\* C9: close(NULL) makes no transport call, changes no handle, session or
\* peer state, and returns.
C9_CloseNullIsNoOp ==
    [][(last'.name = "adi_otp_close" /\ last'.otp = NULL) =>
          /\ last'.calls = <<>>
          /\ last'.ret = Void
          /\ UNCHANGED <<heap, ctx, session, live, peerVersion, locked,
                         fieldState, fieldData>>]_vars

\* C9 witness: close(NULL) returned while a session exists
C9_Witness == last.name = "adi_otp_close" /\ last.otp = NULL /\ live # {}

\* C10: a lock() that returns 0 engages the lock for good; from then on
\* every write and invalidate, on any field through any handle, returns
\* non-zero and leaves the fields as they were, and every is_locked that
\* returns 0 stores 1.
C10_LockRejectsWrites ==
    [][/\ (last'.name = "adi_otp_lock" /\ last'.ret = Returns(0)) => locked'
       /\ locked => locked'
       /\ (locked /\ last'.name \in {"adi_otp_write", "adi_otp_invalidate"}) =>
             (last'.ret # Returns(0) /\ UNCHANGED <<fieldState, fieldData>>)
       /\ (locked /\ last'.name = "adi_otp_is_locked" /\ last'.ret = Returns(0)) =>
             last'.post = <<W(1)>>]_vars

\* C10 witness: with the lock engaged, a write to a field never written
\* was refused
C10_Witness ==
    /\ locked
    /\ last.name = "adi_otp_write"
    /\ last.calls[1].op.a \in OrdinaryIDs
    /\ fieldState[last.calls[1].op.a] = "UNWRITTEN"
    /\ last.ret = Returns(ToInt(TEEC_ERROR_ACCESS_DENIED))

(* ---------------------------------------------------------------------- *)
(* C11..C20                                                                *)
(* ---------------------------------------------------------------------- *)

\* all that a call shows but the name of the function entered
Observed(l) ==
    [otp |-> l.otp, ret |-> l.ret, calls |-> l.calls, rep |-> l.rep,
     pre |-> l.pre, post |-> l.post]

\* the call made last returned 0
ReturnedZero == last.ret = Returns(0)

\* C11: is_locked(otp, &x) is is_written(otp, ADI_OTP_ID_lock, &x): it sends
\* the one IS_WRITTEN command with value ADI_OTP_ID_lock, and in the same
\* state of session and peer each outcome of the one (call sent, status,
\* return value, output stored or left) is an outcome of the other.
C11_IsLockedIsIsWritten ==
    /\ last.name = "adi_otp_is_locked" =>
          /\ Len(last.calls) = 1
          /\ last.calls[1].cmd = ADI_OTP_CMD_IS_WRITTEN
          /\ last.calls[1].op.a = ADI_OTP_ID_lock
          /\ ENABLED (/\ adi_otp_is_written(last.otp, ADI_OTP_ID_lock, last.pre[1])
                      /\ Observed(last') = Observed(last))
    /\ (last.name = "adi_otp_is_written" /\ last.calls[1].op.a = ADI_OTP_ID_lock) =>
          ENABLED (/\ adi_otp_is_locked(last.otp, last.pre[1])
                   /\ Observed(last') = Observed(last))

\* C11 witness: is_locked returned 0 and stored 1
C11_Witness ==
    last.name = "adi_otp_is_locked" /\ ReturnedZero /\ last.post = <<W(1)>>

\* the field a READ, WRITE, INVALIDATE, IS_VALID or IS_WRITTEN call named
CalledId == last.calls[1].op.a

ReadDone == last.name = "adi_otp_read"

StepReturnsZero(fn) == last'.name = fn /\ last'.ret = Returns(0)

\* the field the call of the step named
StepId == last'.calls[1].op.a

\* C13: write then read gives the bytes back.  A write of b to id that
\* returned 0 leaves b, whole, as the value of id; no step but a write of id
\* that returned 0 changes the value of id; and a read of id that returned 0
\* with a capacity of at least the length of the value sets *len to that
\* length and the front of the buffer to the value.
C13_WriteReadRoundTrip ==
    [][/\ StepReturnsZero("adi_otp_write") =>
             /\ fieldState'[StepId] = "WRITTEN"
             /\ fieldData'[StepId] = last'.calls[1].op.buf
       /\ \A id \in OrdinaryIDs :
             fieldData'[id] # fieldData[id] =>
                 StepReturnsZero("adi_otp_write") /\ StepId = id
       /\ (StepReturnsZero("adi_otp_read") /\ last'.pre[1] >= Len(fieldData[StepId])) =>
             /\ last'.post[1] = Len(fieldData[StepId])
             /\ SubSeq(last'.post[2], 1, last'.post[1]) = fieldData[StepId]
      ]_vars

\* C13 witness: a read with capacity 2 returned 0, length 1 and the one byte
\* written before
C13_Witness ==
    /\ ReadDone
    /\ ReturnedZero
    /\ last.pre[1] = 2
    /\ last.post[1] = 1
    /\ last.post[2][1] = 171
    /\ fieldData[CalledId] = <<171>>

\* the field the step named is an ordinary one and was invalidated before
StepOnInvalidated == StepId \in OrdinaryIDs /\ fieldState[StepId] = "INVALID"

\* C14: an invalidate of id that returns 0 finds id written and makes it
\* invalidated; an invalidated field stays so; and from then on an is_valid
\* of id that returns 0 stores 0 while an is_written of id that returns 0
\* stores 1.
C14_InvalidatedNotValidStillWritten ==
    [][/\ StepReturnsZero("adi_otp_invalidate") =>
             /\ fieldState[StepId] = "WRITTEN"
             /\ fieldState'[StepId] = "INVALID"
       /\ \A id \in OrdinaryIDs :
             fieldState[id] = "INVALID" => fieldState'[id] = "INVALID"
       /\ (StepReturnsZero("adi_otp_is_valid") /\ StepOnInvalidated) =>
             last'.post = <<W(0)>>
       /\ (StepReturnsZero("adi_otp_is_written") /\ StepOnInvalidated) =>
             last'.post = <<W(1)>>
      ]_vars

\* C14 witness: is_valid returned 0 and stored 0 for a field that was written
\* and then invalidated
C14_Witness ==
    /\ last.name = "adi_otp_is_valid"
    /\ ReturnedZero
    /\ CalledId \in OrdinaryIDs
    /\ fieldState[CalledId] = "INVALID"
    /\ last.post = <<W(0)>>

\* C15: field and lock states move one way.  A field becomes invalidated
\* only from written, and an invalidate of an unwritten field does not
\* return 0; a field that is not unwritten never becomes unwritten, and an
\* is_written of it that returns 0 stores 1; the lock once set stays set,
\* and an is_locked that returns 0 then stores 1.
C15_StatesOneWay ==
    [][/\ \A id \in OrdinaryIDs :
             /\ (fieldState'[id] = "INVALID" /\ fieldState[id] # "INVALID") =>
                    fieldState[id] = "WRITTEN"
             /\ fieldState[id] # "UNWRITTEN" => fieldState'[id] # "UNWRITTEN"
       /\ (/\ last'.name = "adi_otp_invalidate"
           /\ StepId \in OrdinaryIDs
           /\ fieldState[StepId] = "UNWRITTEN") =>
             (last'.ret # Returns(0) /\ fieldState'[StepId] = "UNWRITTEN")
       /\ (/\ StepReturnsZero("adi_otp_is_written")
           /\ StepId \in OrdinaryIDs
           /\ fieldState[StepId] # "UNWRITTEN") =>
             last'.post = <<W(1)>>
       /\ locked => locked'
       /\ (StepReturnsZero("adi_otp_is_locked") /\ locked) => last'.post = <<W(1)>>
      ]_vars

\* C15 witness: the peer refused the invalidate of an unwritten field
C15_Witness ==
    /\ last.name = "adi_otp_invalidate"
    /\ CalledId \in OrdinaryIDs
    /\ fieldState[CalledId] = "UNWRITTEN"
    /\ last.rep.res = TEEC_ERROR_ACCESS_DENIED
    /\ last.ret = Returns(ToInt(TEEC_ERROR_ACCESS_DENIED))

\* the operations on one field
FieldOperationNames ==
    {"adi_otp_read", "adi_otp_write", "adi_otp_invalidate", "adi_otp_is_valid",
     "adi_otp_is_written"}

\* every command about field id a caller can send, with its operation
Requests(id) ==
    {<<ADI_OTP_CMD_READ, ReadOperation(id, StaleBuf(len), len)>> : len \in TwoLens}
        \cup {<<ADI_OTP_CMD_WRITE, WriteOperation(id, buf, Len(buf))>> : buf \in TwoBuffers}
        \cup {<<ADI_OTP_CMD_INVALIDATE, InvalidateOperation(id)>>,
              <<ADI_OTP_CMD_IS_VALID, QueryOperation(id)>>,
              <<ADI_OTP_CMD_IS_WRITTEN, QueryOperation(id)>>}

\* what a command about a field can come back with in the present state,
\* and what it makes of that field
Seen(cmd, op) ==
    {[reply |-> Wire(rep), state |-> rep.fieldState[op.a], data |-> rep.fieldData[op.a]] :
        rep \in TEEC_InvokeCommand(cmd, op)}

\* the step is a field operation on id
StepOnField(id) == last'.name \in FieldOperationNames /\ StepId = id

\* C16: sessions on different fields do not interfere.  A call on one handle
\* (open and close among them) leaves the allocation, the context and the
\* session of every other handle as they are; and a step that is not an
\* operation on field id leaves id as it is and leaves every read, write,
\* invalidate, is_valid and is_written of id with the statuses and results
\* it had before the step, so each session gets what it gets running alone.
\* (What a command comes back with is a function of the peer's variables, so
\* the comparison is made for the steps that change one of them.)
C16_DisjointSessionsIndependent ==
    [][/\ \A h \in Handles :
             last'.otp # h =>
                 /\ heap'[h] = heap[h]
                 /\ ctx'[h] = ctx[h]
                 /\ session'[h] = session[h]
                 /\ (h \in live') = (h \in live)
       /\ \A id \in TwoFieldIDs :
             ~StepOnField(id) =>
                 /\ fieldState'[id] = fieldState[id]
                 /\ fieldData'[id] = fieldData[id]
                 /\ <<locked, fieldState, fieldData>>' # <<locked, fieldState, fieldData>> =>
                        \A r \in Requests(id) : Seen(r[1], r[2])' = Seen(r[1], r[2])
      ]_vars

\* C16 witness: with two sessions open and field 5 written and invalidated,
\* a read of field 6 returned 0 and the two bytes written there
C16_Witness ==
    /\ Cardinality(live) = 2
    /\ fieldState[5] = "INVALID"
    /\ ReadDone
    /\ ReturnedZero
    /\ CalledId = 6
    /\ last.post = <<2, <<205, 171>>>>

\* the step invokes one command, cmd, with parameters of the types p0, p1
\* and no others
Sends(cmd, p0, p1) ==
    /\ Len(last'.calls) = 1
    /\ last'.calls[1].fn = "TEEC_InvokeCommand"
    /\ last'.calls[1].cmd = cmd
    /\ last'.calls[1].op.paramTypes = <<p0, p1, TEEC_NONE, TEEC_NONE>>

\* params[0].value.a and the buffer size of params[1] the step sends
SentValue == last'.calls[1].op.a
SentSize == last'.calls[1].op.size
SentBuffer == last'.calls[1].op.buf

\* C17: whatever the arguments, no call of an operation on the handle used
\* last can send anything but the command of its kind in the shape of the
\* codec table: get_version
\* VERSION with one value output; read READ with the id as value and an
\* output buffer of the capacity given; write WRITE with the id as value and
\* an input buffer of the bytes and the length given; invalidate INVALIDATE
\* with the id alone; is_valid and is_written IS_VALID and IS_WRITTEN with
\* the id as value input and a value output; lock LOCK with no parameter.
C17_CommandShapes ==
    last.otp \in live =>
        LET otp == last.otp IN
        /\ ~ENABLED (/\ adi_otp_get_version(otp, ToInt(Stale), ToInt(Stale))
                     /\ ~Sends(ADI_OTP_CMD_VERSION, TEEC_VALUE_OUTPUT, TEEC_NONE))
        /\ ~ENABLED (/\ adi_otp_lock(otp)
                     /\ ~Sends(ADI_OTP_CMD_LOCK, TEEC_NONE, TEEC_NONE))
        /\ \A id \in FieldIDs :
              /\ \A len \in Lens :
                    ~ENABLED (/\ adi_otp_read(otp, id, StaleBuf(len), len)
                              /\ ~(/\ Sends(ADI_OTP_CMD_READ, TEEC_VALUE_INPUT,
                                            TEEC_MEMREF_TEMP_OUTPUT)
                                   /\ SentValue = id
                                   /\ SentSize = len))
              /\ \A buf \in Buffers :
                    ~ENABLED (/\ adi_otp_write(otp, id, buf, Len(buf))
                              /\ ~(/\ Sends(ADI_OTP_CMD_WRITE, TEEC_VALUE_INPUT,
                                            TEEC_MEMREF_TEMP_INPUT)
                                   /\ SentValue = id
                                   /\ SentBuffer = buf
                                   /\ SentSize = Len(buf)))
              /\ ~ENABLED (/\ adi_otp_invalidate(otp, id)
                           /\ ~(/\ Sends(ADI_OTP_CMD_INVALIDATE, TEEC_VALUE_INPUT, TEEC_NONE)
                                /\ SentValue = id))
              /\ ~ENABLED (/\ adi_otp_is_valid(otp, id, Stale)
                           /\ ~(/\ Sends(ADI_OTP_CMD_IS_VALID, TEEC_VALUE_INPUT,
                                         TEEC_VALUE_OUTPUT)
                                /\ SentValue = id))
              /\ ~ENABLED (/\ adi_otp_is_written(otp, id, Stale)
                           /\ ~(/\ Sends(ADI_OTP_CMD_IS_WRITTEN, TEEC_VALUE_INPUT,
                                         TEEC_VALUE_OUTPUT)
                                /\ SentValue = id))

\* C17 witness: a write of two bytes to field 5 went out as WRITE with the
\* value 5 and a buffer of size 2
C17_Witness ==
    /\ last.name = "adi_otp_write"
    /\ last.calls[1].cmd = ADI_OTP_CMD_WRITE
    /\ last.calls[1].op.a = 5
    /\ last.calls[1].op.buf = <<205, 171>>
    /\ last.calls[1].op.size = 2

\* the command identifiers libadiotp.c names
Commands ==
    {ADI_OTP_CMD_VERSION, ADI_OTP_CMD_READ, ADI_OTP_CMD_WRITE, ADI_OTP_CMD_INVALIDATE,
     ADI_OTP_CMD_IS_VALID, ADI_OTP_CMD_IS_WRITTEN, ADI_OTP_CMD_LOCK}

\* the command identifiers the call made last put on the wire
SentByLast == {last.calls[i].cmd : i \in CallsOf("TEEC_InvokeCommand")}

\* some call the caller can make next puts cmd on the wire
CanSend(cmd) ==
    ENABLED (/\ Next
             /\ \E i \in DOMAIN last'.calls :
                   /\ last'.calls[i].fn = "TEEC_InvokeCommand"
                   /\ last'.calls[i].cmd = cmd)

Sendable == {cmd \in Commands : CanSend(cmd)}

\* open has just returned a handle: every operation can be called
JustOpened == OpenDone /\ last.ret # Returns(NULL)

\* C18 as stated: the command identifiers the client can place on the wire
\* are exactly six.
C18_ExactlySixCommands ==
    /\ SentByLast \subseteq Commands
    /\ JustOpened => Cardinality(Sendable) = 6

\* C18 amended: the command identifiers the client can place on the wire are
\* exactly seven: VERSION, READ, WRITE, INVALIDATE, IS_VALID, IS_WRITTEN and
\* LOCK; no call sends any other, and with a session open each can be sent.
C18_ExactlySevenCommands ==
    /\ SentByLast \subseteq Commands
    /\ JustOpened => (Sendable = Commands /\ Cardinality(Sendable) = 7)

\* C18 witness: with a session just opened, seven different command
\* identifiers can be sent next
C18_Witness == JustOpened /\ Cardinality(Sendable) = 7

\* C19: when every handle open returned has been closed, nothing those opens
\* acquired is still held: for each such handle (its session is the one
\* close closed) the context is finalized and the allocation is released.
C19_MatchedCloseReleasesAll ==
    live = {} =>
        \A h \in Handles :
            session[h] = "closed" =>
                /\ ctx[h] = "finalized"
                /\ heap[h] # "allocated"

\* the operations that store into variables of the caller
OutputOperationNames ==
    {"adi_otp_get_version", "adi_otp_read", "adi_otp_is_valid", "adi_otp_is_written",
     "adi_otp_is_locked"}

\* C20: an operation with output parameters that does not return 0 leaves
\* them as they were: *major and *minor for get_version, *len for read,
\* *valid for is_valid, *written and *locked for is_written and is_locked.
C20_FailureLeavesOutputs ==
    (last.name \in OutputOperationNames /\ ~ReturnedZero) =>
        IF ReadDone THEN last.post[1] = last.pre[1] ELSE last.post = last.pre

\* C20 witness: the peer refused a read for lack of room and reported the
\* length it needs; *len still holds the capacity
C20_Witness ==
    /\ ReadDone
    /\ last.rep.res = TEEC_ERROR_SHORT_BUFFER
    /\ last.rep.size # last.pre[1]
    /\ last.ret = Returns(ToInt(TEEC_ERROR_SHORT_BUFFER))
    /\ last.post[1] = last.pre[1]

====
